---- MODULE Spec2Model ----
(***************************************************************************)
(* The pull manager of sdk/src/sync/pull.js: one closure holding the page  *)
(* size, the cursor (lastKnownUpdatedAt), the table query, the page query  *)
(* and the query id, whose initialize() and pull() bodies run as tasks of  *)
(* pullTaskRunner.  Every I/O of a body (store.lookup, table.read,         *)
(* readPagePendingOperations, store.del, store.upsert, the checkpoint      *)
(* upsert) is one step that either answers or rejects.                     *)
(***************************************************************************)
EXTENDS Integers, Sequences, FiniteSets, TLC

\* ---------------------------------------------------------------- bounds
MaxRecords == 2      \* records held by the remote table
MaxTime == 2         \* change timestamps are 1..MaxTime
MaxQueue == 1        \* requests waiting in pullTaskRunner behind the running one
MaxPageSize == 2     \* explicit settings.pageSize values are at most this
MaxPending == 1      \* pending operations the log reports for one page
MaxRecordsAnyInput == 1  \* records of the remote table where callers pass any input

\* ------------------------------------------------------------- constants
defaultPageSize == 50
\* new Date(1970, 0, 0): older than every change timestamp
BeginningOfTime == 0
\* what store.lookup answers with suppressRecordNotFoundError when no row exists
NoRow == -1
\* a JS null / undefined where a number is expected
NullNum == -1
\* queryId null: a vanilla pull
NullId == "null"
QueryIds == {"q1"}
\* the keys store.lookup / store.upsert can be handed for the pulltime table
CheckpointKeys == QueryIds \cup {NullId}

Times == 1..MaxTime
Min(a, b) == IF a < b THEN a ELSE b

\* JS truthiness of a number-or-null: null, undefined and 0 are falsy
Truthy(n) == n # NullNum /\ n # 0
\* JS null + n (pagePullQuery.getComponents().skip + pulledRecords.length)
ToNumber(n) == IF n = NullNum THEN 0 ELSE n

\* ------------------------------------------------------------------ data
\* A pulled record: id, updatedAt, the deleted system property ("true",
\* "false" or "missing"), whether updatedAt deserialised to a Date, and
\* whether the id is a valid id.
DeletedFlags == {"true", "false", "missing"}
Record(i, t, d, vd, vi) ==
    [id |-> i, updatedAt |-> t, deleted |-> d, validDate |-> vd, validId |-> vi]

\* The remote table: records in the stable order the server answers in,
\* ascending updatedAt; a record's id is its position.
SortedByUpdatedAt(s) ==
    \A i \in 1..Len(s) : \A j \in 1..Len(s) : i < j => s[i].updatedAt <= s[j].updatedAt

RemoteTables(maxLen, flags, dates, ids) ==
    UNION { { s \in [1..n -> [updatedAt : Times, deleted : flags,
                               validDate : dates, validId : ids]] :
                SortedByUpdatedAt(s) } : n \in 0..maxLen }

WithIds(s) ==
    [i \in 1..Len(s) |-> Record(i, s[i].updatedAt, s[i].deleted, s[i].validDate, s[i].validId)]

\* Query components of azure-query-js: ordering (non-empty or not), skip,
\* take (null or a number), selections (their count), includeTotalCount.
Query(o, s, t, sel, c) ==
    [ordering |-> o, skip |-> s, take |-> t, selections |-> sel, includeTotalCount |-> c]
PlainQuery == Query(FALSE, NullNum, NullNum, 0, FALSE)
\* every shape of query a caller can build: the plain one and one clause added
AllQueries ==
    {PlainQuery}
    \cup {Query(TRUE, NullNum, NullNum, 0, FALSE)}
    \cup {Query(FALSE, s, NullNum, 0, FALSE) : s \in 0..1}
    \cup {Query(FALSE, NullNum, t, 0, FALSE) : t \in 0..1}
    \cup {Query(FALSE, NullNum, NullNum, 1, FALSE)}
    \cup {Query(FALSE, NullNum, NullNum, 0, TRUE)}

\* settings: pageSize absent, or an integer
Settings(has, n) == [hasPageSize |-> has, pageSize |-> n]
NoSettings == Settings(FALSE, 0)
GoodSettings == {NoSettings} \cup {Settings(TRUE, n) : n \in 1..MaxPageSize}
AllSettings == GoodSettings \cup {Settings(TRUE, 0), Settings(TRUE, -2)}

Request(op, q, id, s) == [op |-> op, query |-> q, queryId |-> id, settings |-> s]
InitializeRequest == Request("initialize", PlainQuery, NullId, NoSettings)
NoRequest == Request("none", PlainQuery, NullId, NoSettings)

\* the page query: base query AND updatedAt >= from, ordered by updatedAt,
\* skip and take
PageQuery(f, s, t) == [from |-> f, skip |-> s, take |-> t]
NoPageQuery == PageQuery(NullNum, NullNum, NullNum)

VARIABLES
    remote,              \* the remote table (the server of record)
    checkpoints,         \* the pulltime table of the local store: queryId -> value
    pullQueue,           \* pullTaskRunner: requests waiting to run
    executing,           \* bodies of initialize()/pull() started and not settled
    current,             \* the request whose body is running (its arguments)
    pc,                  \* where the running body is
    error,               \* the error the running body's promise rejects with
    pageSize, lastKnownUpdatedAt, tablePullQuery, pagePullQuery, pullQueryId,
    pulledRecords,       \* pullPage: the page just read
    pendingOperations,   \* processAllRecords: what the operation table answered
    idsToDelete, recordsToUpdate,
    storeRunner,         \* storeTaskRunner: "free", or who runs a task in it
    io,                  \* history: the I/O the running body has issued
    pageIo,              \* history: the I/O issued for the current page, in order
    pulled,              \* history: ids of the pages read, processed and checkpointed
    firstCursor,         \* history: the cursor the running pull started from
    prev                 \* history: the failed incremental pull, if the task that
                         \* settled last is one: the ids of its checkpointed
                         \* pages, the cursor of the page in flight and the row
                         \* it left, kept until the next task has read a page

managerVars == <<pageSize, lastKnownUpdatedAt, tablePullQuery, pagePullQuery, pullQueryId>>
pageVars == <<pulledRecords, pendingOperations, idsToDelete, recordsToUpdate>>
histVars == <<io, pageIo, pulled, firstCursor, prev>>
vars == <<remote, checkpoints, pullQueue, executing, current, pc, error, managerVars, pageVars,
          storeRunner, histVars>>

NoPrev == [failed |-> FALSE, queryId |-> NullId, done |-> {}, cursor |-> NullNum,
           checkpoint |-> NoRow]

\* ------------------------------------------------------------------ Init
InitWith(tables) ==
    /\ remote \in {WithIds(s) : s \in tables}
    /\ checkpoints = [q \in CheckpointKeys |-> NoRow]
    /\ pullQueue = <<>>
    /\ executing = 0
    /\ current = NoRequest
    /\ pc = "idle"
    /\ error = "none"
    /\ pageSize = NullNum
    /\ lastKnownUpdatedAt = NullNum
    /\ tablePullQuery = PlainQuery
    /\ pagePullQuery = NoPageQuery
    /\ pullQueryId = NullId
    /\ pulledRecords = <<>>
    /\ pendingOperations = {}
    /\ idsToDelete = <<>>
    /\ recordsToUpdate = <<>>
    /\ storeRunner = "free"
    /\ io = {}
    /\ pageIo = <<>>
    /\ pulled = {}
    /\ firstCursor = NullNum
    /\ prev = NoPrev

\* well-formed remote records: a boolean deleted flag, a Date, a valid id
Init == InitWith(RemoteTables(MaxRecords, {"true", "false"}, {TRUE}, {TRUE}))

\* ------------------------------------------------------- pure functions
\* validateQuery: TRUE when the query passes (no throw)
validateQuery(query) ==
    /\ ~query.ordering                  \* for (var i in components.ordering) throw
    /\ ~Truthy(query.skip)              \* if (components.skip) throw
    /\ ~Truthy(query.take)              \* if (components.take) throw
    /\ ~(query.selections # 0)          \* selections && selections.length !== 0
    /\ ~query.includeTotalCount         \* if (components.includeTotalCount) throw

\* mutant: any settings.pageSize is accepted
ValidPageSizeAcceptingAny(settings) == TRUE

\* pull, lines 75-82: TRUE when settings.pageSize is accepted
ValidPageSize(settings) ==
    \/ ~settings.hasPageSize            \* _.isNull(settings.pageSize)
    \/ settings.pageSize > 0            \* _.isInteger(pageSize) && pageSize > 0

ChosenPageSize(settings) ==
    IF ~settings.hasPageSize THEN defaultPageSize ELSE settings.pageSize

\* copyQuery: a new Query with the same components
copyQuery(query) ==
    Query(query.ordering, query.skip, query.take, query.selections, query.includeTotalCount)

\* mutant: the row that was looked up is not used
getLastKnownUpdatedAtIgnoringRow(result) == BeginningOfTime

\* getLastKnownUpdatedAt, lines 250-257: the row's value, or 1970
getLastKnownUpdatedAt(result) ==
    IF result # NoRow THEN result ELSE BeginningOfTime

\* mutant: the filter is updatedAt > lastKnownUpdatedAt
PageFilterStrict(updatedAt, from) == updatedAt > from

\* the filter buildQueryFromLastKnownUpdateAt adds: this.updatedAt >= lastKnownUpdatedAt
PageFilter(updatedAt, from) == updatedAt >= from

\* mutant: the query id is not tested
AlwaysIncremental(queryId) == TRUE

\* if (pullQueryId): a non-null query id makes the pull incremental
IsIncremental(queryId) == queryId # NullId

\* mutant: the first record of the page is taken for the last
FirstRecord(records) == records[1]

\* updateQueryForNextPage, line 270: pulledRecords[pulledRecords.length - 1]
LastRecord(records) == records[Len(records)]

\* mutant: the last record's time is never taken to equal the cursor
SameInstantNever(lastRecordTime, cursor) == FALSE

\* updateQueryForNextPage, line 282: lastRecordTime.getTime() === lastKnownUpdatedAt.getTime()
SameInstant(lastRecordTime, cursor) == lastRecordTime = cursor

\* mutant: a page shorter than the page size completes the pull
isPullCompleteOnShortPage(records) == Len(records) < pageSize

\* isPullComplete: only an empty page completes the pull
isPullComplete(records) == Len(records) = 0

Ids(records) == {records[i].id : i \in 1..Len(records)}

\* mobileServiceTable.read of the page query: the records of the remote table
\* that pass the filter, in updatedAt order, after skip, at most take of them;
\* the server's effective page size may be smaller than take, but a server
\* that has a record left returns at least one.
ReadRemote(q) ==
    LET matching == SelectSeq(remote, LAMBDA r : PageFilter(r.updatedAt, q.from))
        start == ToNumber(q.skip)
        avail == Len(matching) - start
    IN  IF avail <= 0 THEN {<<>>}
        ELSE {SubSeq(matching, start + 1, start + n) : n \in 1..Min(q.take, avail)}

\* operationTableManager.readPagePendingOperations: the pending operations the
\* log holds for ids of the page, whichever they are when it is asked
ReadPagePendingOperations(records) ==
    {ops \in SUBSET Ids(records) : Cardinality(ops) <= MaxPending}

\* processAllRecords, lines 221-231: the loop over the page.  With no pending
\* operation every record goes to one batch by its deleted flag, and a flag
\* that is neither true nor false throws; with any pending operation the loop
\* does nothing at all.
RECURSIVE FilterRecords(_, _)
FilterRecords(records, flag) ==
    IF records = <<>> THEN <<>>
    ELSE IF Head(records).deleted = flag
         THEN <<Head(records)>> \o FilterRecords(Tail(records), flag)
         ELSE FilterRecords(Tail(records), flag)

RECURSIVE RecordIds(_)
RecordIds(records) ==
    IF records = <<>> THEN <<>> ELSE <<Head(records).id>> \o RecordIds(Tail(records))

\* mutant: a page with a pending operation throws
ClassifyThrowsOnPending(records, pendingOps) == pendingOps # {}

ClassifyThrows(records, pendingOps) ==
    /\ pendingOps = {}
    /\ \E i \in 1..Len(records) : records[i].deleted \notin {"true", "false"}

\* mutant: the loop puts every id of the page in the delete batch
ClassifyDeletesAll(records, pendingOps) == RecordIds(records)

ClassifyDeletes(records, pendingOps) ==
    IF pendingOps = {} THEN RecordIds(FilterRecords(records, "true")) ELSE <<>>

\* mutant: the loop does not look at the pending operations
ClassifyUpdatesIgnoringPending(records, pendingOps) ==
    FilterRecords(records, "false")

\* mutant: only the records that have a pending operation themselves are withheld
ClassifyUpdatesPerRecord(records, pendingOps) ==
    SelectSeq(FilterRecords(records, "false"), LAMBDA r : r.id \notin pendingOps)

ClassifyUpdates(records, pendingOps) ==
    IF pendingOps = {} THEN FilterRecords(records, "false") ELSE <<>>

\* ---------------------------------------------------------------- actions
ClearedPage ==
    /\ pulledRecords' = <<>>
    /\ pendingOperations' = {}
    /\ idsToDelete' = <<>>
    /\ recordsToUpdate' = <<>>

\* a step throws or an I/O rejects: the body's promise rejects with that error
Reject(e) == pc' = "rejected" /\ error' = e

\* taskRunner.run on pullTaskRunner: a task starts when no task of this runner
\* is running
TaskRunnerReady == pc = "idle" /\ pullQueue # <<>>

\* mutant: the rebuilt page query keeps the skip of the page query it replaces
buildQueryKeepingSkip(updatedAt) ==
    /\ lastKnownUpdatedAt' = updatedAt
    /\ pagePullQuery' = PageQuery(updatedAt, pagePullQuery.skip, pageSize)

\* buildQueryFromLastKnownUpdateAt: sets the cursor and rebuilds the page
\* query from the table query (its skip is the table query's own)
buildQueryFromLastKnownUpdateAt(updatedAt) ==
    /\ lastKnownUpdatedAt' = updatedAt
    /\ pagePullQuery' = PageQuery(updatedAt, tablePullQuery.skip, pageSize)

\* the body of the task pull() hands to pullTaskRunner, up to setupQuery()
pullBody(req) ==
    /\ executing' = executing + 1
    /\ current' = req
    /\ IF validateQuery(req.query) /\ ValidPageSize(req.settings)
       THEN /\ pageSize' = ChosenPageSize(req.settings)
            /\ tablePullQuery' = copyQuery(req.query)
            /\ pullQueryId' = req.queryId
            /\ pc' = "setupQuery"
            /\ UNCHANGED <<error, lastKnownUpdatedAt, pagePullQuery>>
       ELSE /\ Reject("validation")
            /\ UNCHANGED managerVars
    /\ UNCHANGED <<remote, checkpoints, pageVars, storeRunner, histVars>>

\* the body of the task initialize() hands to pullTaskRunner
initializeBody(req) ==
    /\ executing' = executing + 1
    /\ current' = req
    /\ pc' = "defineTable"
    /\ UNCHANGED <<remote, checkpoints, error, managerVars, pageVars, storeRunner, histVars>>

\* initialize(): pullTaskRunner.run(...)
initialize ==
    /\ Len(pullQueue) < MaxQueue
    /\ pullQueue' = Append(pullQueue, InitializeRequest)
    /\ UNCHANGED <<remote, checkpoints, executing, current, pc, error, managerVars,
                   pageVars, storeRunner, histVars>>

\* mutant: pull() runs its body at once, not as a task of pullTaskRunner
pullUnserialized(query, queryId, settings) ==
    /\ pullBody(Request("pull", query, queryId, settings))
    /\ UNCHANGED pullQueue

\* pull(query, queryId, settings): pullTaskRunner.run(...)
pull(query, queryId, settings) ==
    /\ Len(pullQueue) < MaxQueue
    /\ pullQueue' = Append(pullQueue, Request("pull", query, queryId, settings))
    /\ UNCHANGED <<remote, checkpoints, executing, current, pc, error, managerVars,
                   pageVars, storeRunner, histVars>>

\* pullTaskRunner starts the next waiting task
RunNext ==
    /\ TaskRunnerReady
    /\ pullQueue' = Tail(pullQueue)
    /\ IF Head(pullQueue).op = "initialize"
       THEN initializeBody(Head(pullQueue))
       ELSE pullBody(Head(pullQueue))

\* store.defineTable of the pulltime table
defineTable ==
    /\ pc = "defineTable"
    /\ io' = io \cup {"defineTable"}
    /\ \/ pc' = "resolved" /\ UNCHANGED error
       \/ Reject("defineTable")
    /\ UNCHANGED <<remote, checkpoints, pullQueue, executing, current, managerVars,
                   pageVars, storeRunner, pageIo, pulled, firstCursor, prev>>

\* setupQuery: getLastKnownUpdatedAt, then buildQueryFromLastKnownUpdateAt
setupQuery ==
    /\ pc = "setupQuery"
    /\ \/ /\ IsIncremental(pullQueryId)     \* if (pullQueryId): store.lookup
          /\ io' = io \cup {"lookup"}
          /\ \/ /\ buildQueryFromLastKnownUpdateAt(
                       getLastKnownUpdatedAt(checkpoints[pullQueryId]))
                /\ firstCursor' = getLastKnownUpdatedAt(checkpoints[pullQueryId])
                /\ pc' = "pullPage"
                /\ UNCHANGED error
             \/ /\ Reject("lookup")         \* the lookup rejects
                /\ UNCHANGED <<lastKnownUpdatedAt, pagePullQuery, firstCursor>>
       \/ /\ ~IsIncremental(pullQueryId)
          /\ buildQueryFromLastKnownUpdateAt(getLastKnownUpdatedAt(NoRow))
          /\ firstCursor' = getLastKnownUpdatedAt(NoRow)
          /\ pc' = "pullPage"
          /\ UNCHANGED <<io, error>>
    /\ UNCHANGED <<remote, checkpoints, pullQueue, executing, current, pageSize,
                   tablePullQuery, pullQueryId, pageVars, storeRunner, pageIo, pulled,
                   prev>>

\* pullPage: mobileServiceTable.read(queryString, params)
pullPage ==
    /\ pc = "pullPage"
    /\ io' = io \cup {"read"}
    /\ pageIo' = <<"read">>
    /\ \/ /\ \E page \in ReadRemote(pagePullQuery) : pulledRecords' = page
          /\ pc' = "processPulledRecords"
          /\ UNCHANGED error
       \/ /\ Reject("read")                 \* the read rejects
          /\ UNCHANGED pulledRecords
    /\ UNCHANGED <<remote, checkpoints, pullQueue, executing, current, managerVars,
                   pendingOperations, idsToDelete, recordsToUpdate, storeRunner,
                   pulled, firstCursor, prev>>

\* processPulledRecords: storeTaskRunner.run(...) starts its task when the
\* store task runner is free
processPulledRecords ==
    /\ pc = "processPulledRecords"
    /\ storeRunner = "free"
    /\ storeRunner' = "pull"
    /\ pc' = "processAllRecords"
    /\ prev' = [prev EXCEPT !.done = {}, !.cursor = NullNum, !.checkpoint = NoRow]
    /\ UNCHANGED <<remote, checkpoints, pullQueue, executing, current, error, managerVars,
                   pageVars, io, pageIo, pulled, firstCursor>>

\* processAllRecords: one readPagePendingOperations for the page, then the loop
processAllRecords ==
    /\ pc = "processAllRecords"
    /\ io' = io \cup {"readPagePendingOperations"}
    /\ pageIo' = Append(pageIo, "readPagePendingOperations")
    /\ \/ \E ops \in ReadPagePendingOperations(pulledRecords) :
            /\ pendingOperations' = ops
            /\ IF ClassifyThrows(pulledRecords, ops)
               THEN /\ Reject("deleted flag missing")
                    /\ storeRunner' = "free"
                    /\ UNCHANGED <<idsToDelete, recordsToUpdate>>
               ELSE /\ idsToDelete' = ClassifyDeletes(pulledRecords, ops)
                    /\ recordsToUpdate' = ClassifyUpdates(pulledRecords, ops)
                    /\ pc' = "del"
                    /\ UNCHANGED <<storeRunner, error>>
       \/ /\ Reject("readPagePendingOperations")
          /\ storeRunner' = "free"
          /\ UNCHANGED <<pendingOperations, idsToDelete, recordsToUpdate>>
    /\ UNCHANGED <<remote, checkpoints, pullQueue, executing, current, managerVars,
                   pulledRecords, pulled, firstCursor, prev>>

\* mutant: store.upsert is attempted after a rejected store.del
storeDelThenUpsertAnyway ==
    /\ pc = "del"
    /\ io' = io \cup {"del"}
    /\ pageIo' = Append(pageIo, "del")
    /\ \/ pc' = "upsert" /\ UNCHANGED <<storeRunner, error>>
       \/ pc' = "upsert" /\ error' = "del" /\ UNCHANGED storeRunner
    /\ UNCHANGED <<remote, checkpoints, pullQueue, executing, current, managerVars,
                   pageVars, pulled, firstCursor, prev>>

\* store.del(tableName, idsToDelete)
storeDel ==
    /\ pc = "del"
    /\ io' = io \cup {"del"}
    /\ pageIo' = Append(pageIo, "del")
    /\ \/ pc' = "upsert" /\ UNCHANGED <<storeRunner, error>>
       \/ Reject("del") /\ storeRunner' = "free"
    /\ UNCHANGED <<remote, checkpoints, pullQueue, executing, current, managerVars,
                   pageVars, pulled, firstCursor, prev>>

\* mutant: a rejected upsert is swallowed and the page goes on to onPagePulled
storeUpsertSwallowingRejection ==
    /\ pc = "upsert"
    /\ io' = io \cup {"upsert"}
    /\ pageIo' = Append(pageIo, "upsert")
    /\ \/ pc' = "onPagePulled" /\ UNCHANGED error
       \/ pc' = "onPagePulled" /\ error' = "upsert"
    /\ storeRunner' = "free"
    /\ UNCHANGED <<remote, checkpoints, pullQueue, executing, current, managerVars,
                   pageVars, pulled, firstCursor, prev>>

\* store.upsert(tableName, recordsToUpdate); the store task ends with it
storeUpsert ==
    /\ pc = "upsert"
    /\ io' = io \cup {"upsert"}
    /\ pageIo' = Append(pageIo, "upsert")
    /\ \/ pc' = "onPagePulled" /\ UNCHANGED error
       \/ Reject("upsert")
    /\ storeRunner' = "free"
    /\ UNCHANGED <<remote, checkpoints, pullQueue, executing, current, managerVars,
                   pageVars, pulled, firstCursor, prev>>

\* onPagePulled, line 316: the value of the pulltime row is the cursor
CheckpointValue == lastKnownUpdatedAt

\* onPagePulled: an incremental pull upserts its pulltime row
onPagePulled ==
    /\ pc = "onPagePulled"
    /\ \/ /\ IsIncremental(pullQueryId)     \* if (pullQueryId)
          /\ io' = io \cup {"checkpoint"}
          /\ pageIo' = Append(pageIo, "checkpoint")
          /\ \/ /\ checkpoints' = [checkpoints EXCEPT ![pullQueryId] = CheckpointValue]
                /\ pulled' = pulled \cup Ids(pulledRecords)
                /\ pc' = "pullAllPages"
                /\ UNCHANGED error
             \/ /\ Reject("checkpoint")     \* the upsert rejects
                /\ UNCHANGED <<checkpoints, pulled>>
       \/ /\ ~IsIncremental(pullQueryId)
          /\ pulled' = pulled \cup Ids(pulledRecords)
          /\ pc' = "pullAllPages"
          /\ UNCHANGED <<checkpoints, io, pageIo, error>>
    /\ UNCHANGED <<remote, pullQueue, executing, current, managerVars, pageVars,
                   storeRunner, firstCursor, prev>>

\* updateQueryForNextPage, lines 270-286, for a non-empty page
updateQueryForNextPage ==
    LET lastRecord == LastRecord(pulledRecords) IN
    IF ~lastRecord.validDate                \* !_.isDate(lastRecordTime)
    THEN /\ Reject("updatedAt is not a date")
         /\ UNCHANGED <<managerVars, pageVars>>
    ELSE /\ IF SameInstant(lastRecord.updatedAt, lastKnownUpdatedAt)
            THEN /\ pagePullQuery' =
                       [pagePullQuery EXCEPT !.skip = ToNumber(@) + Len(pulledRecords)]
                 /\ UNCHANGED lastKnownUpdatedAt
            ELSE buildQueryFromLastKnownUpdateAt(lastRecord.updatedAt)
         /\ pc' = "pullPage"
         /\ ClearedPage
         /\ UNCHANGED error
         /\ UNCHANGED <<pageSize, tablePullQuery, pullQueryId>>

\* pullAllPages, lines 112-119: after a page, complete or go on
pullAllPages ==
    /\ pc = "pullAllPages"
    /\ IF isPullComplete(pulledRecords)
       THEN /\ pc' = "resolved"
            /\ UNCHANGED <<error, managerVars, pageVars>>
       ELSE updateQueryForNextPage
    /\ UNCHANGED <<remote, checkpoints, pullQueue, executing, current, storeRunner,
                   histVars>>

\* the task's promise settles: pullTaskRunner is free for the next task
Settle ==
    /\ pc \in {"resolved", "rejected"}
    /\ pc' = "idle"
    /\ error' = "none"
    /\ executing' = executing - 1
    /\ current' = NoRequest
    /\ ClearedPage
    /\ io' = {}
    /\ pageIo' = <<>>
    /\ pulled' = {}
    /\ firstCursor' = NullNum
    /\ prev' = IF pc = "rejected" /\ current.op = "pull" /\ firstCursor # NullNum
                  /\ IsIncremental(pullQueryId)
               THEN [failed |-> TRUE, queryId |-> pullQueryId, done |-> pulled,
                     cursor |-> lastKnownUpdatedAt,
                     checkpoint |-> checkpoints[pullQueryId]]
               ELSE NoPrev
    /\ UNCHANGED <<remote, checkpoints, pullQueue, managerVars, storeRunner>>

\* another task of storeTaskRunner (the push path) starts and ends
otherStoreTaskStart ==
    /\ storeRunner = "free"
    /\ storeRunner' = "push"
    /\ UNCHANGED <<remote, checkpoints, pullQueue, executing, current, pc, error,
                   managerVars, pageVars, histVars>>

otherStoreTaskEnd ==
    /\ storeRunner = "push"
    /\ storeRunner' = "free"
    /\ UNCHANGED <<remote, checkpoints, pullQueue, executing, current, pc, error,
                   managerVars, pageVars, histVars>>

Body ==
    \/ RunNext
    \/ defineTable
    \/ setupQuery
    \/ pullPage
    \/ processPulledRecords
    \/ processAllRecords
    \/ storeDel
    \/ storeUpsert
    \/ onPagePulled
    \/ pullAllPages
    \/ Settle

\* callers pass queries and settings that pass validation
Next ==
    \/ Body
    \/ initialize
    \/ \E id \in QueryIds \cup {NullId} : \E s \in GoodSettings : pull(PlainQuery, id, s)

Spec == Init /\ [][Next]_vars

\* the collaborators always answer and the promise chain always goes on: a
\* step of a running body that can be taken is eventually taken
SpecLive == Init /\ [][Next]_vars /\ WF_vars(Body)

\* callers pass any query and any settings
NextAnyInput ==
    \/ Body
    \/ initialize
    \/ \E id \in QueryIds \cup {NullId} :
          \/ \E q \in AllQueries : pull(q, id, NoSettings)
          \/ \E s \in AllSettings : pull(PlainQuery, id, s)

InitAnyInput == InitWith(RemoteTables(MaxRecordsAnyInput, {"true", "false"}, {TRUE}, {TRUE}))

SpecAnyInput == InitAnyInput /\ [][NextAnyInput]_vars

\* the server answers records that may be malformed in one respect: a deleted
\* flag that is missing, an updatedAt that is not a Date, or an invalid id
AnyRecordTables ==
    RemoteTables(MaxRecords, DeletedFlags, {TRUE}, {TRUE})
    \cup RemoteTables(MaxRecords, {"false"}, {TRUE, FALSE}, {TRUE})
    \cup RemoteTables(MaxRecords, {"false"}, {TRUE}, {TRUE, FALSE})

InitAnyRecord == InitWith(AnyRecordTables)

SpecAnyRecord == InitAnyRecord /\ [][Next]_vars

\* the push path runs its own tasks in storeTaskRunner
NextWithPush ==
    \/ Next
    \/ otherStoreTaskStart
    \/ otherStoreTaskEnd

SpecWithPush == Init /\ [][NextWithPush]_vars

\* ================================================================ claims
Running(op) == current.op = op
IncrementalPull == Running("pull") /\ current.queryId # NullId
VanillaPull == Running("pull") /\ current.queryId = NullId
UpdatedAts(ids) == {remote[i].updatedAt : i \in ids}
IsMaximum(v, S) == v \in S /\ \A t \in S : t <= v
SeqRange(seq) == {seq[i] : i \in 1..Len(seq)}

\* C1: at most one body of initialize()/pull() executes at any time, and a
\* waiting request is not blocked: a settled body (resolved or rejected) can
\* always leave the runner, and with no body running the next waiting request
\* can always start.
C1_OneBodyAtATime ==
    /\ executing <= 1
    /\ (pc \in {"resolved", "rejected"}) => ENABLED Settle
    /\ (executing = 0 /\ pullQueue # <<>>) => ENABLED RunNext

\* a pull is running, started after an incremental pull failed, with another
\* request waiting behind it
C1_Witness ==
    /\ prev.failed
    /\ executing = 1
    /\ Running("pull")
    /\ pc = "pullPage"
    /\ pullQueue # <<>>

\* C2: no id for which the pending-operation log reported a pending operation
\* for the page is in the delete batch or in the upsert batch of that page.
C2_PendingNeverApplied ==
    \A id \in pendingOperations :
        /\ id \notin SeqRange(idsToDelete)
        /\ id \notin Ids(recordsToUpdate)

\* a page of two records, one of them with a pending operation, went through
\* store.del and store.upsert
C2_Witness ==
    /\ pc = "onPagePulled"
    /\ Len(pulledRecords) = 2
    /\ Cardinality(pendingOperations) = 1
    /\ {"del", "upsert"} \subseteq io

\* C3 as stated: when an incremental pull resolves, the pulltime row holds the
\* maximum updatedAt of the records of all pages of that pull.
C3_CheckpointIsMaxObserved ==
    (pc = "resolved" /\ IncrementalPull) =>
        IsMaximum(checkpoints[pullQueryId], UpdatedAts(pulled))

\* C3 amended: when an incremental pull resolves, the pulltime row holds the
\* maximum updatedAt of the records of all pages of that pull if it read any
\* record, and the cursor the pull started from if it read none.
C3_CheckpointIsMaxObservedOrStart ==
    (pc = "resolved" /\ IncrementalPull) =>
        IF pulled = {}
        THEN checkpoints[pullQueryId] = firstCursor
        ELSE IsMaximum(checkpoints[pullQueryId], UpdatedAts(pulled))

\* an incremental pull resolved after reading records of two timestamps
C3_Witness ==
    /\ pc = "resolved"
    /\ IncrementalPull
    /\ Cardinality(UpdatedAts(pulled)) = 2

\* C4: while a vanilla pull runs, no step changes the pulltime table, no
\* lookup and no checkpoint write is issued, and the cursor it starts from is
\* the beginning of time.
C4_VanillaNeverCheckpoints ==
    [][ VanillaPull =>
          /\ checkpoints' = checkpoints
          /\ "lookup" \notin io'
          /\ "checkpoint" \notin io'
          /\ firstCursor' \in {NullNum, BeginningOfTime} ]_vars

\* a vanilla pull resolved, having read records, while a pulltime row of an
\* earlier incremental pull exists with a later value
C4_Witness ==
    /\ pc = "resolved"
    /\ VanillaPull
    /\ pulled # {}
    /\ checkpoints["q1"] > BeginningOfTime
    /\ firstCursor = BeginningOfTime

\* the running pull re-runs the identity of the incremental pull that failed
\* just before it
Rerun == prev.failed /\ Running("pull") /\ current.queryId = prev.queryId
PageStates == {"processPulledRecords", "processAllRecords", "del", "upsert",
               "onPagePulled", "pullAllPages"}

\* C5: an incremental pull starts from the persisted checkpoint, reads no
\* record whose updatedAt is older than that checkpoint, and when it resolves
\* it has read every remote record whose updatedAt is equal to or later than
\* the checkpoint (a re-run after a failed pull is such a pull).
C5_ResumesFromCheckpoint ==
    (IncrementalPull /\ firstCursor # NullNum) =>
        /\ ("checkpoint" \notin io /\ checkpoints[pullQueryId] # NoRow)
              => firstCursor = checkpoints[pullQueryId]
        /\ \A i \in pulled \cup Ids(pulledRecords) : remote[i].updatedAt >= firstCursor
        /\ pc = "resolved" =>
              \A i \in 1..Len(remote) : remote[i].updatedAt >= firstCursor => i \in pulled

\* a re-run after a failed pull resolved; it started from a checkpoint that
\* two remote records share, and read both
C5_Witness ==
    /\ Rerun
    /\ pc = "resolved"
    /\ firstCursor > BeginningOfTime
    /\ Cardinality({i \in pulled : remote[i].updatedAt = firstCursor}) = 2

\* C6: a pull resolves only after an empty page; after a non-empty page (its
\* last updatedAt a date) the next step of the pull is the next read, whatever
\* the page's length; after an empty page the next step of the pull resolves
\* it, and it reads no more.
C6_CompletesOnlyOnEmptyPage ==
    [][ Running("pull") =>
          /\ (pc # "resolved" /\ pc' = "resolved")
                => (pc = "pullAllPages" /\ pulledRecords = <<>>)
          /\ (pc = "pullAllPages" /\ pc' # pc /\ pulledRecords # <<>>
                /\ LastRecord(pulledRecords).validDate) => pc' = "pullPage"
          /\ (pc = "pullAllPages" /\ pc' # pc /\ pulledRecords = <<>>)
                => pc' = "resolved"
          /\ (pc \in PageStates \cup {"resolved"} /\ pulledRecords = <<>>)
                => pc' # "pullPage" ]_vars

\* a read was answered after pages that together hold fewer records than the
\* page size, so after pages that were all shorter than the page size
C6_Witness ==
    /\ Running("pull")
    /\ pc = "processPulledRecords"
    /\ pulled # {}
    /\ Cardinality(pulled) < pageSize
    /\ pageSize <= MaxPageSize

\* C7: from the first page query of a pull to its end, no step makes the
\* cursor, the page query's lower bound or a pulltime row smaller.
C7_HighWaterMarkMonotonic ==
    [][ (Running("pull") /\ pc \notin {"setupQuery", "resolved", "rejected"}) =>
          /\ lastKnownUpdatedAt' >= lastKnownUpdatedAt
          /\ pagePullQuery'.from >= pagePullQuery.from
          /\ \A q \in CheckpointKeys : checkpoints'[q] >= checkpoints[q] ]_vars

\* an incremental pull whose cursor is past the row it wrote, which is past
\* the cursor it started from
C7_Witness ==
    /\ IncrementalPull
    /\ firstCursor # NullNum
    /\ lastKnownUpdatedAt > checkpoints[pullQueryId]
    /\ checkpoints[pullQueryId] > firstCursor

\* C8: of the records of the pages a failed incremental pull had
\* processed and checkpointed, a re-run reads again only those that the page
\* in flight at the failure was to read (updatedAt at or after its cursor).
C8_OnlyInFlightPageRefetched ==
    (Rerun /\ pc = "processPulledRecords" /\ pulled = {}) =>
        \A i \in Ids(pulledRecords) :
            i \in prev.done => remote[i].updatedAt >= prev.cursor

\* C9: a step of a pull that fails rejects the pull with that error and leaves
\* the pulltime table as it is; a rejected pull takes no step but to settle
\* (no retry, no I/O, the pulltime table untouched); and the row then is not past any
\* record of the page that failed, so a re-run reads that page again.
C9_FailureAbortsPull ==
    [][ Running("pull") =>
          /\ error' # "none" => (pc' = "rejected" /\ checkpoints' = checkpoints)
          /\ pc' = "rejected" => error' # "none"
          /\ pc = "rejected" =>
                /\ pc' \in {"rejected", "idle"}
                /\ io' \in {io, {}}
                /\ checkpoints' = checkpoints
          /\ (pc' = "rejected" /\ IncrementalPull /\ firstCursor' # NullNum) =>
                \A i \in Ids(pulledRecords') :
                    remote[i].updatedAt >= checkpoints'[pullQueryId] ]_vars

\* the upsert of a later page of an incremental pull rejected after its delete
\* went through
C9_Witness ==
    /\ IncrementalPull
    /\ pc = "rejected"
    /\ error = "upsert"
    /\ "del" \in io
    /\ pulled # {}
    /\ pulledRecords # <<>>

\* C10: a pull whose query holds an ordering, a skip, a take, a selection or a
\* total-count request is rejected by validation with no I/O issued.
UnsupportedQuery(q) ==
    \/ q.ordering
    \/ q.skip # NullNum
    \/ q.take # NullNum
    \/ q.selections # 0
    \/ q.includeTotalCount

C10_UnsupportedQueryFailsBeforeIO ==
    (Running("pull") /\ UnsupportedQuery(current.query)) =>
        (pc = "rejected" /\ error = "validation" /\ io = {})

\* C11: a pull whose settings.pageSize is present and not a positive integer
\* is rejected with no I/O issued; every page query of a pull with no
\* settings.pageSize takes defaultPageSize records, and every page query of a
\* pull with a positive settings.pageSize takes exactly that many.
C11_PageSize ==
    Running("pull") =>
        /\ (current.settings.hasPageSize /\ current.settings.pageSize <= 0) =>
              (pc = "rejected" /\ error = "validation" /\ io = {}
                 /\ firstCursor = NullNum)
        /\ (firstCursor # NullNum /\ ~current.settings.hasPageSize) =>
              pagePullQuery.take = defaultPageSize
        /\ (firstCursor # NullNum /\ current.settings.hasPageSize) =>
              pagePullQuery.take = current.settings.pageSize

\* the second page query of a pull with an explicit page size of 1
C11_Witness ==
    /\ Running("pull")
    /\ current.settings.hasPageSize
    /\ current.settings.pageSize = 1
    /\ pc = "pullPage"
    /\ pulled # {}
    /\ pagePullQuery.take = 1

HasMissingFlag(records) ==
    \E i \in 1..Len(records) : records[i].deleted \notin {"true", "false"}

\* C12: a page holding a record whose deleted flag is missing is rejected
\* with the missing-flag error whatever the pending-operation log reports for
\* it (unless the log's own query rejects), with no store.del, no
\* store.upsert and no pulltime write for that page.
C12_MissingFlagFailsPage ==
    (Running("pull") /\ HasMissingFlag(pulledRecords)) =>
        /\ pc \in {"processPulledRecords", "processAllRecords", "rejected"}
        /\ pageIo \in {<<"read">>, <<"read", "readPagePendingOperations">>}
        /\ (pc = "rejected") =>
              error \in {"deleted flag missing", "readPagePendingOperations"}

HasInvalidId(records) == \E i \in 1..Len(records) : ~records[i].validId

\* C13: a page holding a record with a missing or invalid id is rejected as a
\* whole: no store.del and no store.upsert is issued for it and both batches
\* stay empty.
C13_InvalidIdFailsPage ==
    (Running("pull") /\ HasInvalidId(pulledRecords)) =>
        /\ pc \in {"processPulledRecords", "processAllRecords", "rejected"}
        /\ "del" \notin SeqRange(pageIo)
        /\ "upsert" \notin SeqRange(pageIo)
        /\ idsToDelete = <<>>
        /\ recordsToUpdate = <<>>

\* the positions of a page whose deleted flag is flag, in page order
FlagPositions(records, flag) == {i \in 1..Len(records) : records[i].deleted = flag}
\* batch holds exactly the images under f of the records at those positions,
\* in page order: position k of the batch is the k-th of them
IsBatchOf(batch, records, positions, f(_)) ==
    /\ Len(batch) = Cardinality(positions)
    /\ \A i \in positions :
          batch[Cardinality({j \in positions : j <= i})] = f(records[i])
IdOf(r) == r.id
Itself(r) == r
Batched == pc \in {"del", "upsert", "onPagePulled", "pullAllPages"}

\* C14: for a page with no pending operation and every deleted flag a boolean,
\* the delete batch handed to store.del is exactly the ids of the records
\* flagged true and the upsert batch handed to store.upsert is exactly the
\* records flagged false, each in page order.
C14_BatchesPartitionPage ==
    (Running("pull") /\ Batched /\ pendingOperations = {}
       /\ ~HasMissingFlag(pulledRecords)) =>
        /\ IsBatchOf(idsToDelete, pulledRecords, FlagPositions(pulledRecords, "true"), IdOf)
        /\ IsBatchOf(recordsToUpdate, pulledRecords, FlagPositions(pulledRecords, "false"),
                     Itself)

\* a page of a deleted record followed by a live one, with no pending
\* operation, went through store.del and is at store.upsert
C14_Witness ==
    /\ Running("pull")
    /\ pc = "upsert"
    /\ pendingOperations = {}
    /\ Len(pulledRecords) = 2
    /\ pulledRecords[1].deleted = "true"
    /\ pulledRecords[2].deleted = "false"
    /\ idsToDelete = <<1>>

\* C15: after a non-empty page, if the updatedAt of its last record equals
\* the cursor, the cursor stays and the page query's skip grows by the number
\* of records of the page; otherwise the cursor becomes that updatedAt and the
\* page query is rebuilt from it with skip 0; if that updatedAt is not a Date
\* the pull is rejected with the error saying so.
C15_CursorAdvance ==
    [][ (Running("pull") /\ pc = "pullAllPages" /\ pc' # pc /\ pulledRecords # <<>>) =>
          LET last == pulledRecords[Len(pulledRecords)] IN
          IF ~last.validDate
          THEN /\ pc' = "rejected"
               /\ error' = "updatedAt is not a date"
          ELSE /\ pc' = "pullPage"
               /\ pagePullQuery'.take = pageSize
               /\ IF last.updatedAt = lastKnownUpdatedAt
                  THEN /\ lastKnownUpdatedAt' = lastKnownUpdatedAt
                       /\ pagePullQuery'.from = pagePullQuery.from
                       /\ pagePullQuery'.skip =
                              ToNumber(pagePullQuery.skip) + Len(pulledRecords)
                  ELSE /\ lastKnownUpdatedAt' = last.updatedAt
                       /\ pagePullQuery'.from = last.updatedAt
                       /\ ToNumber(pagePullQuery'.skip) = 0 ]_vars

\* the cursor moved to the second timestamp after pages that stayed on the
\* first and grew the skip, and the rebuilt page query has no skip
C15_Witness ==
    /\ Running("pull")
    /\ pc = "pullPage"
    /\ pageSize = 1
    /\ Len(remote) = 2
    /\ remote[1].updatedAt = 1
    /\ remote[2].updatedAt = 2
    /\ pulled = {1, 2}
    /\ lastKnownUpdatedAt = 2
    /\ ToNumber(pagePullQuery.skip) = 0

Count(seq, x) == Cardinality({i \in 1..Len(seq) : seq[i] = x})

\* C16: the pending-operation log is queried once for each page read, before
\* its batches are handed to the store, never twice; and when it reports any
\* pending operation for the page both batches of the page are empty, even
\* for the records of the page that have no pending operation themselves.
C16_PageGranularity ==
    Running("pull") =>
        /\ Count(pageIo, "readPagePendingOperations") <= 1
        /\ Batched => Count(pageIo, "readPagePendingOperations") = 1
        /\ (Batched /\ pendingOperations # {}) =>
              (idsToDelete = <<>> /\ recordsToUpdate = <<>>)

\* a page of two live records, one of them with a pending operation, the
\* other without, is at store.upsert
C16_Witness ==
    /\ Running("pull")
    /\ pc = "upsert"
    /\ Len(pulledRecords) = 2
    /\ FlagPositions(pulledRecords, "false") = {1, 2}
    /\ pendingOperations = {1}
    /\ pulled # {}

\* the I/O of one page of an incremental pull, in order; a vanilla pull stops
\* before the pulltime write
PageOrder == <<"read", "readPagePendingOperations", "del", "upsert", "checkpoint">>
PageDone == IF IsIncremental(pullQueryId) THEN PageOrder ELSE SubSeq(PageOrder, 1, 4)
IsPrefix(s, t) == Len(s) <= Len(t) /\ s = SubSeq(t, 1, Len(s))

\* C17: the I/O of a page is issued one at a time in the order read,
\* pending-operation query, store.del, store.upsert, pulltime write, each only
\* after the one before it succeeded (so store.upsert is not attempted after a
\* rejected store.del), and the next read is issued only when all of them are
\* done for the page before.
C17_StrictlySequential ==
    [][ /\ IsPrefix(pageIo', PageOrder)
        /\ (pageIo' # pageIo /\ pageIo' = <<"read">>) => pageIo \in {<<>>, PageDone}
        /\ (pageIo' # pageIo /\ Len(pageIo') > 1) =>
              /\ pageIo' = Append(pageIo, PageOrder[Len(pageIo) + 1])
              /\ error = "none" ]_vars

\* the read of a second page of an incremental pull is about to be issued,
\* all five steps of the first page done
C17_Witness ==
    /\ IncrementalPull
    /\ pc = "pullPage"
    /\ pageIo = PageOrder
    /\ pulled # {}

\* C18: every store write a pull issues (store.del, store.upsert, the
\* pulltime upsert) is issued while the pull holds a task of storeTaskRunner,
\* so never while a task of the push path runs in it or while it is free.
C18_WritesInsideStoreTask ==
    [][ (pageIo' # pageIo /\ pageIo' # <<>>
           /\ pageIo'[Len(pageIo')] \in {"del", "upsert", "checkpoint"}) =>
          storeRunner = "pull" ]_vars

Settled == pc \in {"resolved", "rejected"}

\* C19: every pull that starts eventually settles (resolves after an empty
\* page, or rejects), against a remote table that does not change and
\* answers in updatedAt order at least one record while any is left,
\* including when more records share an updatedAt than the page size.
C19_PullSettles == Running("pull") ~> (Running("pull") /\ Settled)

\* a pull with page size 1 resolved after reading two records that share
\* one updatedAt
C19_Witness ==
    /\ Running("pull")
    /\ pc = "resolved"
    /\ pageSize = 1
    /\ Len(remote) = 2
    /\ remote[1].updatedAt = remote[2].updatedAt
    /\ pulled = {1, 2}

\* the page at hand was withheld: the log reported a pending operation for it
Withheld == Running("pull") /\ pendingOperations # {}

\* what C20 says of a withheld page apart from refetching: the answer of the
\* log does not fail the page; its pulltime row is written with the cursor as
\* for any page; after it the cursor or the skip moves as after any page; and
\* a pull reads no record older than the checkpoint it started from.
WithheldPageIsProcessed ==
    /\ (Running("pull") /\ pc = "processAllRecords" /\ pendingOperations' # {}) =>
          (pc' = "del" /\ error' = "none")
    /\ (Withheld /\ pc \in {"del", "upsert", "onPagePulled"} /\ pc' = "rejected") =>
          error' \in {"del", "upsert", "checkpoint"}
    /\ (Withheld /\ pc = "onPagePulled" /\ pc' = "pullAllPages"
          /\ IsIncremental(pullQueryId)) =>
          (checkpoints'[pullQueryId] = lastKnownUpdatedAt
             /\ pageIo' = PageOrder)
    /\ (Withheld /\ pc = "pullAllPages" /\ pc' # pc) =>
          LET last == pulledRecords[Len(pulledRecords)] IN
          /\ pc' = "pullPage"
          /\ lastKnownUpdatedAt' = last.updatedAt
          /\ pagePullQuery'.from = last.updatedAt
          /\ ToNumber(pagePullQuery'.skip) =
                IF last.updatedAt = lastKnownUpdatedAt
                THEN ToNumber(pagePullQuery.skip) + Len(pulledRecords)
                ELSE 0
    /\ (Running("pull") /\ firstCursor # NullNum) =>
          \A i \in Ids(pulledRecords) : remote[i].updatedAt >= firstCursor

\* C20 as stated: a withheld page is processed like an applied one (above),
\* and the read that follows it answers no record of that page.
C20_WithheldPageNeverRefetched ==
    [][ /\ WithheldPageIsProcessed
        /\ (Withheld /\ pc = "pullAllPages" /\ pc' = "pullPage") =>
              \A page \in ReadRemote(pagePullQuery') :
                  Ids(page) \cap Ids(pulledRecords) = {} ]_vars

\* C20 amended: a withheld page is processed like an applied one (above), and
\* the read that follows it answers, of the records of that page, only those
\* whose updatedAt is the new cursor, when the cursor moved; none when the
\* skip grew instead.
C20_WithheldPageAdvances ==
    [][ /\ WithheldPageIsProcessed
        /\ (Withheld /\ pc = "pullAllPages" /\ pc' = "pullPage") =>
              \A page \in ReadRemote(pagePullQuery') :
                  \A i \in Ids(page) \cap Ids(pulledRecords) :
                      /\ lastKnownUpdatedAt' # lastKnownUpdatedAt
                      /\ remote[i].updatedAt = lastKnownUpdatedAt' ]_vars

\* a withheld page of two records of different timestamps was checkpointed by
\* an incremental pull and the cursor is about to move
C20_Witness ==
    /\ IncrementalPull
    /\ Withheld
    /\ pc = "pullAllPages"
    /\ pageIo = PageOrder
    /\ Len(pulledRecords) = 2
    /\ pulledRecords[1].updatedAt # pulledRecords[2].updatedAt
    /\ checkpoints[pullQueryId] = lastKnownUpdatedAt

====
